---------------------------- MODULE Spec2Model ----------------------------
(***************************************************************************)
(* A model of duosida_ev/charger.py: the protobuf-like wire codec          *)
(* (ProtobufEncoder, ProtobufDecoder) and the session engine               *)
(* (DuosidaCharger: connect, disconnect, get_status, the command           *)
(* operations).                                                            *)
(*                                                                         *)
(* Conventions.  A Python bytes object and a Python str are both a         *)
(* sequence of byte values 0..255 (every str of the model is ASCII, so     *)
(* str.encode('utf-8') keeps the bytes); what tells them apart after a     *)
(* decode is the tag t of the decoded value.  Offsets are the source's     *)
(* 0-based offsets: data[offset] of the source is data[offset + 1] here.   *)
(* None is the model value None (sock) or NoStatus (a status).             *)
(***************************************************************************)
EXTENDS Integers, Sequences, FiniteSets, TLC

(***************************************************************************)
(* Bounds of the model.                                                    *)
(***************************************************************************)
\* sequence is capped: a handshake or a command is not started at MaxSeq
MaxSeq == 6
\* the number of socket objects one session creates (one per connect())
MaxSocks == 2
\* get_status is called with retries in 0 .. MaxRetries
MaxRetries == 3

(***************************************************************************)
(* ProtobufEncoder                                                         *)
(***************************************************************************)
RECURSIVE encode_varint(_)
encode_varint(value) ==
    IF value > 127
    THEN <<(value % 128) + 128>> \o encode_varint(value \div 128)
    ELSE <<value % 128>>

\* (field_num << 3) | wire_type
Tag(field_num, wire_type) == field_num * 8 + wire_type

encode_string(field_num, value) ==
    encode_varint(Tag(field_num, 2)) \o encode_varint(Len(value)) \o value

encode_varint_field(field_num, value) ==
    encode_varint(Tag(field_num, 0)) \o encode_varint(value)

encode_embedded_message(field_num, data) ==
    encode_varint(Tag(field_num, 2)) \o encode_varint(Len(data)) \o data

(***************************************************************************)
(* ProtobufDecoder                                                         *)
(***************************************************************************)
Pow2(n) == 2 ^ n

\* the loop of decode_varint, from (result, shift) at offset
RECURSIVE DecodeVarintLoop(_, _, _, _)
DecodeVarintLoop(data, offset, result, shift) ==
    IF offset < Len(data)
    THEN LET byte == data[offset + 1]
             r    == result + (byte % 128) * Pow2(shift)
         IN  IF byte < 128
             THEN <<r, offset + 1>>
             ELSE DecodeVarintLoop(data, offset + 1, r, shift + 7)
    ELSE <<result, offset>>

\* returns <<value, next_offset>>
decode_varint(data, offset) == DecodeVarintLoop(data, offset, 0, 0)

\* data[a:b] of the source (0-based, b exclusive, b <= len(data))
Slice(data, a, b) == [i \in 1 .. (b - a) |-> data[a + i]]

\* bytes.decode('utf-8') succeeds: the strict UTF-8 decoder of Python 3
IsCont(b) == b >= 128 /\ b <= 191
RECURSIVE IsUtf8From(_, _)
IsUtf8From(d, i) ==
    IF i > Len(d) THEN TRUE
    ELSE LET b == d[i]
             has(k) == i + k <= Len(d)
         IN  IF b <= 127 THEN IsUtf8From(d, i + 1)
             ELSE IF b >= 194 /\ b <= 223
                  THEN has(1) /\ IsCont(d[i + 1]) /\ IsUtf8From(d, i + 2)
             ELSE IF b >= 224 /\ b <= 239
                  THEN /\ has(2)
                       /\ IsCont(d[i + 1]) /\ IsCont(d[i + 2])
                       /\ (b = 224 => d[i + 1] >= 160)
                       /\ (b = 237 => d[i + 1] <= 159)
                       /\ IsUtf8From(d, i + 3)
             ELSE IF b >= 240 /\ b <= 244
                  THEN /\ has(3)
                       /\ IsCont(d[i + 1]) /\ IsCont(d[i + 2]) /\ IsCont(d[i + 3])
                       /\ (b = 240 => d[i + 1] >= 144)
                       /\ (b = 244 => d[i + 1] <= 143)
                       /\ IsUtf8From(d, i + 4)
             ELSE FALSE

IsUtf8(d) == IsUtf8From(d, 1)

(***************************************************************************)
(* A decoded value (the source's int, float, str or bytes).  t is the      *)
(* Python type: "int" (n the value), "str" or "bytes" (b the bytes),       *)
(* "f32" or "f64" (b the little-endian bytes struct.unpack read).          *)
(***************************************************************************)
IntVal(n)   == [t |-> "int", n |-> n, b |-> <<>>]
StrVal(b)   == [t |-> "str", n |-> 0, b |-> b]
BytesVal(b) == [t |-> "bytes", n |-> 0, b |-> b]
F32Val(b)   == [t |-> "f32", n |-> 0, b |-> b]
F64Val(b)   == [t |-> "f64", n |-> 0, b |-> b]

\* fields.setdefault(field_number, value): the first value of a key is kept
DictSetFirst(fields, k, v) == [x \in (DOMAIN fields) \cup {k} |-> IF x \in DOMAIN fields THEN fields[x] ELSE v]

\* fields[field_number] = value on a dictionary (a function on its keys)
DictSet(fields, k, v) == [x \in (DOMAIN fields) \cup {k} |-> IF x = k THEN v ELSE fields[x]]

EmptyDict == [x \in {} |-> IntVal(0)]

\* The while loop of decode_message, from offset with the fields so far.
\* DecodeMessageLoop reads the key, DecodeField is the dispatch on the wire
\* type (lines 96-121), DecodeBlob the length-delimited branch after its
\* length is read (lines 108-115).
RECURSIVE DecodeMessageLoop(_, _, _)
RECURSIVE DecodeField(_, _, _, _, _)
RECURSIVE DecodeBlob(_, _, _, _, _)
DecodeBlob(data, fields, field_number, length, offset) ==
    IF offset + length <= Len(data)
    THEN LET value == Slice(data, offset, offset + length)
         IN  DecodeMessageLoop(data, offset + length,
                 DictSet(fields, field_number,
                         IF IsUtf8(value) THEN StrVal(value) ELSE BytesVal(value)))
    ELSE DecodeMessageLoop(data, offset, fields)

DecodeField(data, fields, field_number, wire_type, offset) ==
    IF wire_type = 0 THEN
       LET vd == decode_varint(data, offset)
       IN  DecodeMessageLoop(data, vd[2], DictSet(fields, field_number, IntVal(vd[1])))
    ELSE IF wire_type = 1 THEN
       IF offset + 8 <= Len(data)
       THEN DecodeMessageLoop(data, offset + 8,
                DictSet(fields, field_number, F64Val(Slice(data, offset, offset + 8))))
       ELSE DecodeMessageLoop(data, offset, fields)
    ELSE IF wire_type = 2 THEN
       LET ld == decode_varint(data, offset)
       IN  DecodeBlob(data, fields, field_number, ld[1], ld[2])
    ELSE IF wire_type = 5 THEN
       IF offset + 4 <= Len(data)
       THEN DecodeMessageLoop(data, offset + 4,
                DictSet(fields, field_number, F32Val(Slice(data, offset, offset + 4))))
       ELSE DecodeMessageLoop(data, offset, fields)
    ELSE DecodeMessageLoop(data, offset, fields)

DecodeMessageLoop(data, offset, fields) ==
    IF offset >= Len(data) THEN fields
    ELSE LET kd == decode_varint(data, offset)
         IN  DecodeField(data, fields, kd[1] \div 8, kd[1] % 8, kd[2])

decode_message(data) == DecodeMessageLoop(data, 0, EmptyDict)

\* One pass of the while loop of decode_message (lines 89-121), from offset
\* with the fields so far: the offset and the fields it leaves, and the field
\* it stored (line 98, 103, 113, 115 or 120), if it stored one.
Pass(offset, fields, stored) ==
    [offset |-> offset, fields |-> fields, stored |-> stored]

Stored(fields, field_number, value, offset) ==
    Pass(offset, DictSet(fields, field_number, value),
         <<[field_number |-> field_number, value |-> value]>>)

Skipped(fields, offset) == Pass(offset, fields, <<>>)

PassBlob(data, fields, field_number, length, offset) ==
    IF offset + length <= Len(data)
    THEN LET value == Slice(data, offset, offset + length)
         IN  Stored(fields, field_number,
                    IF IsUtf8(value) THEN StrVal(value) ELSE BytesVal(value),
                    offset + length)
    ELSE Skipped(fields, offset)

PassField(data, fields, field_number, wire_type, offset) ==
    IF wire_type = 0 THEN
       LET vd == decode_varint(data, offset)
       IN  Stored(fields, field_number, IntVal(vd[1]), vd[2])
    ELSE IF wire_type = 1 THEN
       IF offset + 8 <= Len(data)
       THEN Stored(fields, field_number, F64Val(Slice(data, offset, offset + 8)), offset + 8)
       ELSE Skipped(fields, offset)
    ELSE IF wire_type = 2 THEN
       LET ld == decode_varint(data, offset)
       IN  PassBlob(data, fields, field_number, ld[1], ld[2])
    ELSE IF wire_type = 5 THEN
       IF offset + 4 <= Len(data)
       THEN Stored(fields, field_number, F32Val(Slice(data, offset, offset + 4)), offset + 4)
       ELSE Skipped(fields, offset)
    ELSE Skipped(fields, offset)

\* a pass that goes back to its key when it stored nothing
DecodePassRewinding(data, offset, fields) ==
    LET kd == decode_varint(data, offset)
        p  == PassField(data, fields, kd[1] \div 8, kd[1] % 8, kd[2])
    IN  IF p.stored = <<>> THEN Skipped(fields, offset) ELSE p

DecodePass(data, offset, fields) ==
    LET kd == decode_varint(data, offset)
    IN  PassField(data, fields, kd[1] \div 8, kd[1] % 8, kd[2])


(***************************************************************************)
(* Numbers.  A Python float or int that a status holds is a record: k is   *)
(* "fin" for a finite integral value v, "frac" for a finite non-integral   *)
(* value (v its truncation toward zero, what int() returns; sign kept in   *)
(* pos), "nan", or "inf" (pos tells +inf from -inf).                       *)
(***************************************************************************)
Fin(v)  == [k |-> "fin", v |-> v, pos |-> v > 0]
NaN     == [k |-> "nan", v |-> 0, pos |-> FALSE]
Inf(p)  == [k |-> "inf", v |-> 0, pos |-> p]
Frac(v, p) == [k |-> "frac", v |-> v, pos |-> p]

\* mant * 2^ex with sign, for the IEEE decoders
Scaled(neg, mant, ex) ==
    LET sgn == IF neg THEN -1 ELSE 1
    IN  IF ex >= 0 THEN Fin(sgn * mant * Pow2(ex))
        ELSE IF -ex < 31 /\ mant % Pow2(-ex) = 0
             THEN Fin(sgn * (mant \div Pow2(-ex)))
             ELSE Frac(sgn * (IF -ex < 31 THEN mant \div Pow2(-ex) ELSE 0), ~neg)

\* struct.unpack('<f', b)[0]
F32Num(b) ==
    LET neg == b[4] >= 128
        e   == (b[4] % 128) * 2 + (b[3] \div 128)
        m   == (b[3] % 128) * 65536 + b[2] * 256 + b[1]
    IN  IF e = 255 THEN (IF m = 0 THEN Inf(~neg) ELSE NaN)
        ELSE IF e = 0 THEN (IF m = 0 THEN Fin(0) ELSE Frac(0, ~neg))
        ELSE Scaled(neg, 8388608 + m, e - 150)

\* struct.unpack('<d', b)[0]; the low 32 mantissa bits are tracked only as
\* zero or non-zero
F64Num(b) ==
    LET neg  == b[8] >= 128
        e    == (b[8] % 128) * 16 + (b[7] \div 16)
        hi   == (b[7] % 16) * 65536 + b[6] * 256 + b[5]
        low0 == b[1] = 0 /\ b[2] = 0 /\ b[3] = 0 /\ b[4] = 0
    IN  IF e = 2047 THEN (IF hi = 0 /\ low0 THEN Inf(~neg) ELSE NaN)
        ELSE IF e = 0 THEN (IF hi = 0 /\ low0 THEN Fin(0) ELSE Frac(0, ~neg))
        ELSE IF low0 THEN Scaled(neg, 1048576 + hi, e - 1043)
        ELSE Frac(0, ~neg)

\* the number a decoded int or float value stands for
NumOf(val) ==
    IF val.t = "int" THEN Fin(val.n)
    ELSE IF val.t = "f32" THEN F32Num(val.b)
    ELSE F64Num(val.b)

IsNumeric(val) == val.t \in {"int", "f32", "f64"}

\* bool(x) of a decoded int or float
Truthy(val) == LET x == NumOf(val) IN ~(x.k = "fin" /\ x.v = 0)

\* a > 0
Positive(x) == x.k # "nan" /\ x.pos

\* a * b for a > 0 and b > 0
Times(a, b) ==
    IF a.k = "fin" /\ b.k = "fin" THEN Fin(a.v * b.v)
    ELSE IF a.k = "inf" \/ b.k = "inf" THEN Inf(TRUE)
    ELSE Frac(0, TRUE)

(***************************************************************************)
(* ChargerStatus, and Optional[ChargerStatus]: some = FALSE is None.       *)
(* voltage2/3 and current2/3 (always 0.0) and the identity strings         *)
(* (device_id, model, manufacturer, firmware), which no branch of the      *)
(* session engine reads back, are left out of the record.                  *)
(***************************************************************************)
ChargerStatus(conn_status, voltage, current, power, temperature_station, temperature_internal, session_energy, timestamp, cp_voltage_raw) ==
    [some |-> TRUE, conn_status |-> conn_status, voltage |-> voltage,
     current |-> current, power |-> power,
     temperature_station |-> temperature_station,
     temperature_internal |-> temperature_internal,
     session_energy |-> session_energy, timestamp |-> timestamp,
     cp_voltage_raw |-> cp_voltage_raw]

NoStatus ==
    [ChargerStatus(0, Fin(0), Fin(0), Fin(0), Fin(0), Fin(0), Fin(0), 0, Fin(0))
        EXCEPT !.some = FALSE]

\* ASCII of the message-type tags
DataVendorStatusReq ==
    <<68, 97, 116, 97, 86, 101, 110, 100, 111, 114, 83, 116, 97, 116, 117, 115, 82, 101, 113>>
DataContinueReq ==
    <<68, 97, 116, 97, 67, 111, 110, 116, 105, 110, 117, 101, 82, 101, 113>>

\* the outcomes of _get_status_once: a status, None, or an exception
OnceStatus(st) == [kind |-> "status", status |-> st]
OnceNone       == [kind |-> "none", status |-> NoStatus]
OnceRaise      == [kind |-> "raise", status |-> NoStatus]

Has(fields, k) == k \in DOMAIN fields
IsBytes(fields, k) == Has(fields, k) /\ fields[k].t = "bytes"

\* lines 405-445: `device_id in device_info` raises TypeError when field 100
\* decoded to a non-zero number and field 4 to text
DeviceInfoRaises(outer_fields) ==
    /\ Has(outer_fields, 4)
    /\ outer_fields[4].t \in {"str", "bytes"}
    /\ Has(outer_fields, 100)
    /\ IsNumeric(outer_fields[100])
    /\ Truthy(outer_fields[100])

\* msg_type == "<text>": a str equal to it (bytes never equal a str)
IsText(fields, k, text) == Has(fields, k) /\ fields[k].t = "str" /\ fields[k].b = text

\* lines 450-467: the payload fields of a decoded inner container, or
\* skip = TRUE for `return None`
UnwrapInner(inner_fields) ==
    IF IsText(inner_fields, 2, DataVendorStatusReq) THEN
       IF IsBytes(inner_fields, 10)
       THEN [skip |-> FALSE, fields |-> decode_message(inner_fields[10].b)]
       ELSE [skip |-> FALSE, fields |-> EmptyDict]
    ELSE IF IsText(inner_fields, 2, DataContinueReq) THEN
       [skip |-> TRUE, fields |-> EmptyDict]
    ELSE IF IsBytes(inner_fields, 10)
       THEN [skip |-> FALSE, fields |-> decode_message(inner_fields[10].b)]
    ELSE IF IsBytes(inner_fields, 12)
       THEN [skip |-> FALSE, fields |-> decode_message(inner_fields[12].b)]
    ELSE [skip |-> FALSE, fields |-> inner_fields]

\* lines 447-469
Unwrap(outer_fields) ==
    IF IsBytes(outer_fields, 16)
    THEN UnwrapInner(decode_message(outer_fields[16].b))
    ELSE [skip |-> FALSE, fields |-> outer_fields]

KeyFields == {1, 2, 8, 17}

has_key_fields(fields) ==
    /\ DOMAIN fields # {}
    /\ \E field_num \in KeyFields : Has(fields, field_num)

get_float(fields, field_num) ==
    IF Has(fields, field_num) /\ IsNumeric(fields[field_num])
    THEN NumOf(fields[field_num]) ELSE Fin(0)

\* int(val) raises on nan and on an infinity
GetIntRaises(fields, field_num) ==
    /\ Has(fields, field_num) /\ IsNumeric(fields[field_num])
    /\ NumOf(fields[field_num]).k \in {"nan", "inf"}

get_int(fields, field_num) ==
    IF Has(fields, field_num) /\ IsNumeric(fields[field_num])
    THEN NumOf(fields[field_num]).v ELSE 0

\* lines 483-501 without lines 503-504: power stays at the 0.0 it is built with
BuildStatusUnpowered(fields) ==
    ChargerStatus(get_int(fields, 17), get_float(fields, 1), get_float(fields, 2),
                  Fin(0), get_float(fields, 8), get_float(fields, 7),
                  get_float(fields, 4), get_int(fields, 18), get_float(fields, 9))

\* lines 483-506
BuildStatus(fields) ==
    LET voltage == get_float(fields, 1)
        current == get_float(fields, 2)
        power   == IF Positive(voltage) /\ Positive(current)
                   THEN Times(voltage, current) ELSE Fin(0)
    IN  ChargerStatus(get_int(fields, 17), voltage, current, power,
                      get_float(fields, 8), get_float(fields, 7),
                      get_float(fields, 4), get_int(fields, 18),
                      get_float(fields, 9))

\* lines 471-506: the payload is a status, or not, or does not convert
StatusOfPayload(u) ==
    IF u.skip THEN OnceNone
    ELSE IF ~has_key_fields(u.fields) THEN OnceNone
    ELSE IF GetIntRaises(u.fields, 17) \/ GetIntRaises(u.fields, 18) THEN OnceRaise
    ELSE OnceStatus(BuildStatus(u.fields))

\* lines 402-506, on the decoded outer message
StatusOfFields(outer_fields) ==
    IF DeviceInfoRaises(outer_fields) THEN OnceRaise
    ELSE StatusOfPayload(Unwrap(outer_fields))

\* _get_status_once from line 397 on: what it makes of the bytes recv returned
StatusOfResponse(response) ==
    IF response = <<>> THEN OnceNone
    ELSE StatusOfFields(decode_message(response))

(***************************************************************************)
(* The frames the network of the model delivers.                           *)
(***************************************************************************)
\* voltage 230, current 0 as varints in the outer message
StatusFrameA == <<8, 230, 1, 16, 0>>
\* field 16 = {2: "DataVendorStatusReq", 10: {1: 230.0f, 2: 16.0f, 17: 2}},
\* field 100 = "T1"
StatusFrameB ==
    <<130, 1, 36, 18, 19>> \o DataVendorStatusReq
    \o <<82, 13, 13, 0, 0, 102, 67, 21, 0, 0, 128, 65, 136, 1, 2, 162, 6, 2, 84, 49>>
\* field 16 = {2: "DataContinueReq"}
KeepaliveFrame == <<130, 1, 17, 18, 15>> \o DataContinueReq
\* field 100 = 1 (a varint), field 4 = "A"
MalformedFrame == <<160, 6, 1, 34, 1, 65>>

Frames == {StatusFrameA, StatusFrameB, KeepaliveFrame, MalformedFrame}

\* StatusOfResponse, worked out once for each frame of the network
FrameTable == [f \in Frames |-> StatusOfResponse(f)]

StatusOf(response) ==
    IF response \in Frames THEN FrameTable[response] ELSE StatusOfResponse(response)

(***************************************************************************)
(* The session: DuosidaCharger.                                            *)
(*                                                                         *)
(* sock is the handle self.sock: None, or the index in sockets of the      *)
(* socket object it refers to.  sockets holds every socket object the      *)
(* session has created, with its state ("created": not connected,          *)
(* "connected", "closed") and its timeout in tenths of a second.           *)
(*                                                                         *)
(* The caller is at pc = "idle" between calls; a call runs the whole       *)
(* method and leaves pc = "returned" with what the caller can observe:     *)
(* call (the operation, its arguments, its result, the state it started    *)
(* from) and events (the socket calls the method made, in order).  Return  *)
(* takes the caller back to "idle".                                        *)
(***************************************************************************)
VARIABLES sock, sequence, last_good_status, device_id, sockets,
          pc, call, events,
          n_handshakes, n_commands, last_101, last_genuine

\* The codec on its own: buffer is the bytes handed to decode_message or
\* returned by the recv of _get_status_once, codec_pc tells which of the two
\* has run ("input": none yet, "off": the codec is not under study), decoded
\* is the dictionary decode_message returned, outcome what _get_status_once
\* made of the bytes.  For the varint round trip, number is the integer handed
\* to encode_varint (as limbs), buffer its encoding and varint what
\* decode_varint(buffer, 0) returned.  For decode_message taken one pass of
\* its loop at a time, loop_offset and loop_fields are its locals offset and
\* fields (names the operators of the decoder have for their parameters) and
\* loop_stored lists the fields its passes stored, in order.
VARIABLES buffer, codec_pc, decoded, outcome, number, varint, loop_offset, loop_fields, loop_stored

\* monitor(interval, duration, callback): mpc is the line the call is at
\* ("off": monitor is not running; "test": line 751; "tick": line 755;
\* "callback": line 758; "sleep": line 766; "done": past the loop), elapsed is
\* time.time() - start_time, tick and prev_tick tell what the last two passes of
\* the loop met, stop tells what ended the loop
VARIABLES mpc, duration, interval, callback, elapsed, tick, prev_tick, stop

session_vars == <<sock, sequence, last_good_status, device_id, sockets,
                  pc, call, events, n_handshakes, n_commands, last_101, last_genuine>>

codec_vars == <<buffer, codec_pc, decoded, outcome, number, varint, loop_offset, loop_fields, loop_stored>>

monitor_vars == <<mpc, duration, interval, callback, elapsed, tick, prev_tick, stop>>

vars == <<sock, sequence, last_good_status, device_id, sockets,
          pc, call, events, n_handshakes, n_commands, last_101, last_genuine,
          buffer, codec_pc, decoded, outcome, number, varint, loop_offset, loop_fields, loop_stored,
          mpc, duration, interval, callback, elapsed, tick, prev_tick, stop>>

None == 0
\* timeout: float = 5.0, in tenths of a second
DefaultTimeout == 50
\* socket.gettimeout() of a socket that was never given one
NoTimeout == -1

\* the device id a session is constructed with: "T1"
DeviceIds == {<<84, 49>>}

\* msg1 and msg2 of _send_handshake
HandshakeAnnounce == <<162, 3, 4, 8, 0, 16, 0, 162, 6, 3, 73, 79, 83, 168, 6, 0>>
HandshakeVendor ==
    <<26, 10, 8, 158, 230, 218, 145, 13, 16, 0, 24, 0>>
    \o <<162, 6, 19, 48, 51, 49, 48, 49, 48, 55, 49, 49, 50, 49, 50, 50, 51, 54, 48, 51, 55, 52>>
    \o <<168, 6, 158, 129, 128, 64>>

Ev(ev, s, data, ok) == [ev |-> ev, sock |-> s, data |-> data, ok |-> ok]

\* the object the methods work on, at the start of a call; events and trace
\* collect what the call does: the socket calls, and the outcome of each
\* attempt of get_status
Self == [sock |-> sock, sequence |-> sequence,
         last_good_status |-> last_good_status,
         sockets |-> sockets, events |-> <<>>, trace |-> <<>>]

\* sendall succeeds only on a connected socket, and there only if the
\* network lets it (ok)
send_raw(self, data, ok) ==
    IF self.sock = None THEN [self |-> self, raised |-> TRUE]
    ELSE LET done == ok /\ self.sockets[self.sock].state = "connected"
         IN  [self   |-> [self EXCEPT !.events = Append(@, Ev("send", self.sock, data, done))],
              raised |-> ~done]

\* _recv_raw without the `finally` of lines 370-371: the timeout of the read
\* stays on the socket
recv_raw_keeping_timeout(self, timeout, rd) ==
    IF self.sock = None THEN [self |-> self, raised |-> TRUE, data |-> <<>>]
    ELSE LET done == rd.ok /\ self.sockets[self.sock].state = "connected"
             data == IF done THEN rd.data ELSE <<>>
             s1 == [self EXCEPT !.sockets[self.sock].timeout = timeout]
             s2 == [s1 EXCEPT !.events = Append(@, Ev("recv", self.sock, data, done))]
         IN  [self |-> s2, raised |-> ~done, data |-> data]

\* rd is what the network has for this read: [ok, data]
recv_raw(self, timeout, rd) ==
    IF self.sock = None THEN [self |-> self, raised |-> TRUE, data |-> <<>>]
    ELSE LET old_timeout == self.sockets[self.sock].timeout
             done == rd.ok /\ self.sockets[self.sock].state = "connected"
             data == IF done THEN rd.data ELSE <<>>
             s1 == [self EXCEPT !.sockets[self.sock].timeout = timeout]
             s2 == [s1 EXCEPT !.events = Append(@, Ev("recv", self.sock, data, done))]
             s3 == [s2 EXCEPT !.sockets[self.sock].timeout = old_timeout]
         IN  [self |-> s3, raised |-> ~done, data |-> data]

\* send_handshake without its `self.sequence += 1`
send_handshake_uncounted(self, o) ==
    LET r1 == send_raw(self, HandshakeAnnounce, o.send1)
        r2 == recv_raw(r1.self, 10, o.drain)
        r3 == send_raw(r2.self, HandshakeVendor, o.send2)
    IN  IF r1.raised THEN [self |-> r1.self, raised |-> TRUE]
        ELSE [self |-> r3.self, raised |-> r3.raised]

\* send_handshake without the try/except around the drain read
send_handshake_strict(self, o) ==
    LET r1 == send_raw(self, HandshakeAnnounce, o.send1)
        r2 == recv_raw(r1.self, 10, o.drain)
        r3 == send_raw(r2.self, HandshakeVendor, o.send2)
    IN  IF r1.raised THEN [self |-> r1.self, raised |-> TRUE]
        ELSE IF r2.raised THEN [self |-> r2.self, raised |-> TRUE]
        ELSE IF r3.raised THEN [self |-> r3.self, raised |-> TRUE]
        ELSE [self |-> [r3.self EXCEPT !.sequence = @ + 1], raised |-> FALSE]

\* o: what the network does during connect(): conn, send1, drain, send2
send_handshake(self, o) ==
    LET r1 == send_raw(self, HandshakeAnnounce, o.send1)
        r2 == recv_raw(r1.self, 10, o.drain)
        r3 == send_raw(r2.self, HandshakeVendor, o.send2)
    IN  IF r1.raised THEN [self |-> r1.self, raised |-> TRUE]
        ELSE IF r3.raised THEN [self |-> r3.self, raised |-> TRUE]
        ELSE [self |-> [r3.self EXCEPT !.sequence = @ + 1], raised |-> FALSE]

connect(self, o) ==
    LET id == Len(self.sockets) + 1
        s0 == [self EXCEPT !.sockets = Append(@, [state |-> "created", timeout |-> NoTimeout]),
                           !.sock = id]
        s1 == [s0 EXCEPT !.sockets[id].timeout = DefaultTimeout]
        s2 == [s1 EXCEPT !.events = Append(@, Ev("connect", id, <<>>, o.conn)),
                         !.sockets[id].state = IF o.conn THEN "connected" ELSE "created"]
    IN  IF ~o.conn THEN [self |-> s2, ret |-> FALSE]
        ELSE LET h == send_handshake(s2, o)
             IN  [self |-> h.self, ret |-> ~h.raised]

\* disconnect without its `self.sock = None`
disconnect_keeping_handle(self) ==
    IF self.sock # None
    THEN [self EXCEPT !.events = Append(@, Ev("close", self.sock, <<>>, TRUE)),
                      !.sockets[self.sock].state = "closed"]
    ELSE self

disconnect(self) ==
    IF self.sock # None
    THEN [self EXCEPT !.events = Append(@, Ev("close", self.sock, <<>>, TRUE)),
                      !.sockets[self.sock].state = "closed",
                      !.sock = None]
    ELSE self

\* an attempt that forgets the cache when it brings no status
AttemptedClearing(self, out) ==
    [self |-> [self EXCEPT !.trace = Append(@, out.kind),
                           !.last_good_status =
                               IF out.kind = "status" THEN @ ELSE NoStatus],
     out |-> out]

\* the attempt's outcome, noted in the trace
Attempted(self, out) ==
    [self |-> [self EXCEPT !.trace = Append(@, out.kind)], out |-> out]

\* _get_status_once after the read r
OnceAfterRead(r) ==
    Attempted(r.self, IF r.raised THEN OnceRaise ELSE StatusOf(r.data))

\* _get_status_once with a second recv before the decode
get_status_once_rereading(self, rd) ==
    OnceAfterRead(recv_raw(recv_raw(self, 20, rd).self, 20, rd))

\* _get_status_once: one read, then the decode
get_status_once(self, rd) == OnceAfterRead(recv_raw(self, 20, rd))

\* what get_status returns: the kind ("status", "none" for None, "raise")
Returned(self, kind, st) == [self |-> self, kind |-> kind, status |-> st]

\* the fallback without its test of use_cache
CacheOrAlways(self, use_cache, kind) ==
    IF self.last_good_status.some
    THEN Returned(self, "status", self.last_good_status)
    ELSE Returned(self, kind, NoStatus)

\* lines 385-387 and 389-391: the cache if allowed and present
CacheOr(self, use_cache, kind) ==
    IF use_cache /\ self.last_good_status.some
    THEN Returned(self, "status", self.last_good_status)
    ELSE Returned(self, kind, NoStatus)

\* what the network has for the read of attempt i - 1: reads[i], and an
\* error (a timeout) once reads is used up
ReadAt(reads, i) ==
    IF i <= Len(reads) THEN reads[i] ELSE [ok |-> FALSE, data |-> <<>>]

\* The for loop of get_status from `attempt` on.  AfterAttempt is the loop
\* body once _get_status_once has returned or raised (r).
RECURSIVE GetStatusLoop(_, _, _, _, _)
RECURSIVE AfterAttempt(_, _, _, _, _)
\* the loop body with `except: pass` in place of lines 383-387
AfterAttemptSwallowing(r, attempt, retries, use_cache, reads) ==
    IF r.out.kind = "status" THEN
       Returned([r.self EXCEPT !.last_good_status = r.out.status], "status", r.out.status)
    ELSE GetStatusLoop(r.self, attempt + 1, retries, use_cache, reads)

\* the loop body without line 381, `self._last_good_status = status`
AfterAttemptUncached(r, attempt, retries, use_cache, reads) ==
    IF r.out.kind = "status" THEN Returned(r.self, "status", r.out.status)
    ELSE IF r.out.kind = "raise" /\ attempt = retries - 1 THEN
       CacheOr(r.self, use_cache, "raise")
    ELSE GetStatusLoop(r.self, attempt + 1, retries, use_cache, reads)

\* the loop body with lines 383-387 taken on every attempt, not on the final
\* one only
AfterAttemptFailFast(r, attempt, retries, use_cache, reads) ==
    IF r.out.kind = "status" THEN
       Returned([r.self EXCEPT !.last_good_status = r.out.status], "status", r.out.status)
    ELSE IF r.out.kind = "raise" THEN CacheOr(r.self, use_cache, "raise")
    ELSE GetStatusLoop(r.self, attempt + 1, retries, use_cache, reads)

AfterAttempt(r, attempt, retries, use_cache, reads) ==
    IF r.out.kind = "status" THEN
       Returned([r.self EXCEPT !.last_good_status = r.out.status], "status", r.out.status)
    ELSE IF r.out.kind = "raise" /\ attempt = retries - 1 THEN
       CacheOr(r.self, use_cache, "raise")
    ELSE GetStatusLoop(r.self, attempt + 1, retries, use_cache, reads)

GetStatusLoop(self, attempt, retries, use_cache, reads) ==
    IF attempt >= retries THEN CacheOr(self, use_cache, "none")
    ELSE AfterAttempt(get_status_once(self, ReadAt(reads, attempt + 1)),
                      attempt, retries, use_cache, reads)

get_status(self, retries, use_cache, reads) ==
    GetStatusLoop(self, 0, retries, use_cache, reads)

(***************************************************************************)
(* Command operations.                                                     *)
(***************************************************************************)
\* str(n) for n >= 0, as ASCII
RECURSIVE Str(_)
Str(n) == IF n < 10 THEN <<48 + n>> ELSE Str(n \div 10) \o <<48 + (n % 10)>>

\* Integers past 2^31 (a time in milliseconds, a session id) are sequences
\* of 16-bit limbs, least significant first.
ToWide(n) == <<n % 65536, n \div 65536>>

\* value > 0x7F, value & 0x7F and value >> 7 on limbs
WideAbove127(w) == w[1] > 127 \/ \E i \in 2 .. Len(w) : w[i] # 0
WideShr7(w) ==
    [i \in 1 .. Len(w) |->
        (w[i] \div 128) + (IF i < Len(w) THEN (w[i + 1] % 128) * 512 ELSE 0)]

\* encode_varint on limbs without `| 0x80`: no byte says that more follow
RECURSIVE encode_varint_wide_unmarked(_)
encode_varint_wide_unmarked(w) ==
    IF WideAbove127(w)
    THEN <<w[1] % 128>> \o encode_varint_wide_unmarked(WideShr7(w))
    ELSE <<w[1] % 128>>

\* encode_varint on limbs
RECURSIVE encode_varint_wide(_)
encode_varint_wide(w) ==
    IF WideAbove127(w)
    THEN <<(w[1] % 128) + 128>> \o encode_varint_wide(WideShr7(w))
    ELSE <<w[1] % 128>>

\* now % 0xFFFFFFFF for now = <<l0, l1, l2>>: 2^32 = 1 modulo 0xFFFFFFFF, so
\* now = (l0 + l2) + l1 * 2^16, carries folded back the same way
default_session_id(now) ==
    LET x0 == now[1] + now[3]
        c0 == x0 \div 65536
        x1 == x0 % 65536
        y0 == now[2] + c0
        c1 == y0 \div 65536
        y1 == y0 % 65536
        x2 == x1 + c1
    IN  IF x2 = 65535 /\ y1 = 65535 THEN <<0, 0>> ELSE <<x2, y1>>

\* the frame of a command with the sequence counted before it is written
CommandFramePostIncrement(self, field, command_data) ==
    encode_embedded_message(field, command_data)
    \o encode_string(100, device_id)
    \o encode_varint_field(101, self.sequence + 1)

\* the frame of a command: the command sub-message at its field, the device
\* id (field 100), the sequence (field 101)
CommandFrame(self, field, command_data) ==
    encode_embedded_message(field, command_data)
    \o encode_string(100, device_id)
    \o encode_varint_field(101, self.sequence)

\* the tail of a command with `self.sequence += 1` ahead of the send
SendCommandCountingFirst(self, msg, ok) ==
    LET r == send_raw([self EXCEPT !.sequence = @ + 1], msg, ok)
    IN  [self |-> r.self, ret |-> ~r.raised]

\* lines 529-535 and their copies: send, then count, or False on an exception
SendCommand(self, msg, ok) ==
    LET r == send_raw(self, msg, ok)
    IN  IF r.raised THEN [self |-> r.self, ret |-> FALSE]
        ELSE [self |-> [r.self EXCEPT !.sequence = @ + 1], ret |-> TRUE]

VendorMaxWorkCurrent ==
    <<86, 101, 110, 100, 111, 114, 77, 97, 120, 87, 111, 114, 107, 67, 117, 114, 114, 101, 110, 116>>
ConnectionTimeOut ==
    <<67, 111, 110, 110, 101, 99, 116, 105, 111, 110, 84, 105, 109, 101, 79, 117, 116>>
VendorMaxWorkTemperature ==
    <<86, 101, 110, 100, 111, 114, 77, 97, 120, 87, 111, 114, 107, 84, 101, 109, 112, 101, 114, 97, 116, 117, 114, 101>>
VendorMaxWorkVoltage ==
    <<86, 101, 110, 100, 111, 114, 77, 97, 120, 87, 111, 114, 107, 86, 111, 108, 116, 97, 103, 101>>
VendorMinWorkVoltage ==
    <<86, 101, 110, 100, 111, 114, 77, 105, 110, 87, 111, 114, 107, 86, 111, 108, 116, 97, 103, 101>>
VendorDirectWorkMode ==
    <<86, 101, 110, 100, 111, 114, 68, 105, 114, 101, 99, 116, 87, 111, 114, 107, 77, 111, 100, 101>>
VendorLEDStrength ==
    <<86, 101, 110, 100, 111, 114, 76, 69, 68, 83, 116, 114, 101, 110, 103, 116, 104>>
StopTransactionOnEVSideDisconnect ==
    <<83, 116, 111, 112, 84, 114, 97, 110, 115, 97, 99, 116, 105, 111, 110, 79, 110, 69, 86, 83, 105, 100, 101, 68, 105, 115, 99, 111, 110, 110, 101, 99, 116>>
XC_Remote_Tag == <<88, 67, 95, 82, 101, 109, 111, 116, 101, 95, 84, 97, 103>>

Rejected(self) == [self |-> self, ret |-> FALSE]

\* The attributes __init__ gives a session (lines 302-309); no method adds
\* one.  Reading any other attribute, and calling a method the class does
\* not define, raises AttributeError.
Attributes ==
    {"host", "port", "device_id", "timeout", "debug", "sock", "sequence",
     "_last_good_status"}

\* self._cached_max_current as the code has it
cached_max_current(self) ==
    IF "_cached_max_current" \in Attributes THEN "None" ELSE "AttributeError"

\* self.get_max_current(): DuosidaCharger defines no such method
get_max_current(self) == [self |-> self, ret |-> "AttributeError"]

set_max_current(self, amps, ok) ==
    IF ~(6 <= amps /\ amps <= 32) THEN Rejected(self)
    ELSE LET command_data == encode_string(1, VendorMaxWorkCurrent)
                             \o encode_string(2, Str(amps))
         IN  SendCommand(self, CommandFrame(self, 10, command_data), ok)

set_config(self, key, value, ok) ==
    LET command_data == encode_string(1, key) \o encode_string(2, value)
    IN  SendCommand(self, CommandFrame(self, 10, command_data), ok)

set_connection_timeout(self, seconds, ok) ==
    IF ~(30 <= seconds /\ seconds <= 900) THEN Rejected(self)
    ELSE set_config(self, ConnectionTimeOut, Str(seconds), ok)

set_max_temperature(self, celsius, ok) ==
    IF ~(85 <= celsius /\ celsius <= 95) THEN Rejected(self)
    ELSE set_config(self, VendorMaxWorkTemperature, Str(celsius), ok)

set_max_voltage(self, voltage, ok) ==
    IF ~(265 <= voltage /\ voltage <= 290) THEN Rejected(self)
    ELSE set_config(self, VendorMaxWorkVoltage, Str(voltage), ok)

set_min_voltage(self, voltage, ok) ==
    IF ~(70 <= voltage /\ voltage <= 110) THEN Rejected(self)
    ELSE set_config(self, VendorMinWorkVoltage, Str(voltage), ok)

set_direct_work_mode(self, enabled, ok) ==
    set_config(self, VendorDirectWorkMode, IF enabled THEN <<49>> ELSE <<48>>, ok)

\* set_led_brightness taking every level from 0 to 3
set_led_brightness_lenient(self, level, ok) ==
    IF level \notin 0 .. 3 THEN Rejected(self)
    ELSE set_config(self, VendorLEDStrength, Str(level), ok)

set_led_brightness(self, level, ok) ==
    IF level \notin {0, 1, 3} THEN Rejected(self)
    ELSE set_config(self, VendorLEDStrength, Str(level), ok)

set_stop_on_disconnect(self, enabled, ok) ==
    set_config(self, StopTransactionOnEVSideDisconnect,
               IF enabled THEN <<49>> ELSE <<48>>, ok)

start_charging(self, ok) ==
    LET inner_data   == encode_string(1, XC_Remote_Tag)
        command_data == encode_varint_field(1, 1)
                        \o encode_embedded_message(2, inner_data)
    IN  SendCommand(self, CommandFrame(self, 34, command_data), ok)

\* session_id = <<>> is None; now is time.time() * 1000
stop_charging(self, session_id, now, ok) ==
    LET id           == IF session_id = <<>> THEN default_session_id(now) ELSE session_id
        command_data == encode_varint(Tag(1, 0)) \o encode_varint_wide(id)
    IN  SendCommand(self, CommandFrame(self, 36, command_data), ok)

(***************************************************************************)
(* What the network may hand to a read, and what the caller may pass.      *)
(***************************************************************************)
ReadErr == [ok |-> FALSE, data |-> <<>>]
Read(data) == [ok |-> TRUE, data |-> data]

\* what a read of get_status may meet: an error or a timeout, or a frame
Reads == {ReadErr, Read(KeepaliveFrame), Read(MalformedFrame),
          Read(StatusFrameA), Read(StatusFrameB)}

\* a read that ends the loop of get_status: it brings a status
Stops(rd) == rd.ok /\ StatusOf(rd.data).kind = "status"

\* the reads a call get_status(retries) may consume: one for each attempt, up
\* to and including the first that brings a status
Runs ==
    [retries \in 0 .. MaxRetries |->
       {r \in UNION {[1 .. k -> Reads] : k \in 0 .. retries} :
          /\ \A i \in 1 .. Len(r) - 1 : ~Stops(r[i])
          /\ Len(r) < retries => (r # <<>> /\ Stops(r[Len(r)]))}]

\* what the drain read of the handshake may meet
DrainReads == {ReadErr, Read(<<>>), Read(KeepaliveFrame)}

ConnectOutcomes ==
    [conn : BOOLEAN, send1 : BOOLEAN, drain : DrainReads, send2 : BOOLEAN]

AmpsArgs       == {5, 6, 32, 33}
TimeoutArgs    == {29, 30, 900, 901}
TemperatureArgs == {84, 85, 95, 96}
MaxVoltageArgs == {264, 265, 290, 291}
MinVoltageArgs == {69, 70, 110, 111}
LedArgs        == {0, 1, 2, 3, 4}
\* set_config("K", "1")
ConfigKeys     == {<<75>>}
ConfigValues   == {<<49>>}
\* stop_charging(None) and stop_charging(7)
SessionIdArgs  == {<<>>, ToWide(7)}
\* time.time() * 1000: 1, 2^32 - 1, 2^32 + 5
NowArgs        == {<<1, 0, 0>>, <<65535, 65535, 0>>, <<5, 0, 1>>}

(***************************************************************************)
(* The caller's record of a call, and the history.                         *)
(***************************************************************************)
Snapshot(sk, sq, st, ss) ==
    [sock |-> sk, sequence |-> sq, last_good_status |-> st, sockets |-> ss]

CallRec(op, arg, flag, ret, st, trace) ==
    [op |-> op, arg |-> arg, flag |-> flag, ret |-> ret, status |-> st,
     trace |-> trace, pre |-> Snapshot(sock, sequence, last_good_status, sockets)]

NoCall ==
    [op |-> "none", arg |-> <<>>, flag |-> FALSE, ret |-> "None", status |-> NoStatus,
     trace |-> <<>>, pre |-> Snapshot(None, 0, NoStatus, <<>>)]

Bool(b) == IF b THEN "True" ELSE "False"

\* the successful sends among the events
Sent(evs) == SelectSeq(evs, LAMBDA e : e.ev = "send" /\ e.ok)

\* the status a read event brought, if it brought one
GenuineOf(out) == IF out.kind = "status" THEN <<out.status>> ELSE <<>>
GenuineIn(e) ==
    IF e.ev = "recv" /\ e.ok THEN GenuineOf(StatusOf(e.data)) ELSE <<>>

\* the genuine statuses among the responses read, in order
RECURSIVE Genuine(_)
Genuine(evs) ==
    IF evs = <<>> THEN <<>> ELSE GenuineIn(Head(evs)) \o Genuine(Tail(evs))

\* the last element of a sequence, or prev if it has none
LastOr(seq, prev) == IF seq # <<>> THEN seq[Len(seq)] ELSE prev

\* field 101 of a frame on the wire
Field101(frame) == decode_message(frame)[101].n

\* n_handshakes: handshakes completed (the vendor frame went out);
\* n_commands: command frames that went out; last_101: field 101 of the last
\* of them, 0 before the first; last_genuine: the last genuine status a
\* get_status call decoded
HistoryOf(op, sent, gen) ==
    /\ n_handshakes' = n_handshakes +
          (IF op = "connect" /\ Len(sent) = 2 THEN 1 ELSE 0)
    /\ n_commands' = n_commands +
          (IF op \notin {"connect", "get_status"} THEN Len(sent) ELSE 0)
    /\ last_101' = IF op \notin {"connect", "get_status"} /\ sent # <<>>
                   THEN Field101(sent[Len(sent)].data) ELSE last_101
    /\ last_genuine' = IF op = "get_status" THEN LastOr(gen, last_genuine)
                       ELSE last_genuine

History == HistoryOf(call'.op, Sent(events'), Genuine(events'))

\* the call has run: the object's fields, what the caller sees, the history
Done(self, c) ==
    /\ pc = "idle"
    /\ sock' = self.sock
    /\ sequence' = self.sequence
    /\ last_good_status' = self.last_good_status
    /\ sockets' = self.sockets
    /\ events' = self.events
    /\ call' = c
    /\ pc' = "returned"
    /\ device_id' = device_id
    /\ History
    /\ UNCHANGED codec_vars
    /\ UNCHANGED monitor_vars

DoneCommand(r, op, arg, flag) ==
    /\ sequence < MaxSeq
    /\ Done(r.self, CallRec(op, arg, flag, Bool(r.ret), NoStatus, <<>>))

(***************************************************************************)
(* The specification.                                                      *)
(***************************************************************************)
\* the session as __init__ leaves it
Constructed ==
    /\ sock = None
    /\ sequence = 2
    /\ last_good_status = NoStatus
    /\ device_id \in DeviceIds
    /\ sockets = <<>>
    /\ pc = "idle"
    /\ call = NoCall
    /\ events = <<>>
    /\ n_handshakes = 0
    /\ n_commands = 0
    /\ last_101 = 0
    /\ last_genuine = NoStatus

\* decode_varint's (value, next_offset), the value as limbs
Varint(w, next) == [value |-> w, next |-> next]

\* no varint round trip and no decode_message loop under way
VarintOff ==
    /\ number = <<0, 0, 0>>
    /\ varint = Varint(<<0, 0, 0>>, 0)

LoopOff ==
    /\ loop_offset = 0
    /\ loop_fields = EmptyDict
    /\ loop_stored = <<>>

CodecOff ==
    /\ buffer = <<>>
    /\ codec_pc = "off"
    /\ decoded = EmptyDict
    /\ outcome = OnceNone
    /\ VarintOff
    /\ LoopOff

\* a pass of the loop of monitor: what get_status gave ("new": no pass yet),
\* whether the callback was called, whether it raised
Tick(kind, st, called, cb_raised) ==
    [kind |-> kind, status |-> st, called |-> called, cb_raised |-> cb_raised]

NoTick == Tick("new", NoStatus, FALSE, FALSE)

\* duration: Optional[float] = None
NoDuration == [given |-> FALSE, v |-> 0]
Seconds(v) == [given |-> TRUE, v |-> v]

MonitorOff ==
    /\ mpc = "off"
    /\ duration = NoDuration
    /\ interval = 1
    /\ callback = FALSE
    /\ elapsed = 0
    /\ tick = NoTick
    /\ prev_tick = NoTick
    /\ stop = "none"

Init == Constructed /\ CodecOff /\ MonitorOff

Connect ==
    /\ Len(sockets) < MaxSocks
    /\ \E o \in ConnectOutcomes :
          DoneCommand(connect(Self, o), "connect", <<>>, FALSE)

Disconnect ==
    Done(disconnect(Self), CallRec("disconnect", <<>>, FALSE, "None", NoStatus, <<>>))

DoneGetStatus(r, retries, use_cache) ==
    /\ Done(r.self, CallRec("get_status", <<retries>>, use_cache,
                            IF r.kind = "none" THEN "None" ELSE r.kind,
                            r.status, r.self.trace))

GetStatus ==
    \E retries \in 0 .. MaxRetries, use_cache \in BOOLEAN :
      \E reads \in Runs[retries] :
         DoneGetStatus(get_status(Self, retries, use_cache, reads),
                       retries, use_cache)

SetMaxCurrent ==
    \E amps \in AmpsArgs, ok \in BOOLEAN :
       DoneCommand(set_max_current(Self, amps, ok), "set_max_current", <<amps>>, FALSE)

SetConfig ==
    \E key \in ConfigKeys, value \in ConfigValues, ok \in BOOLEAN :
       DoneCommand(set_config(Self, key, value, ok), "set_config", <<>>, FALSE)

SetConnectionTimeout ==
    \E seconds \in TimeoutArgs, ok \in BOOLEAN :
       DoneCommand(set_connection_timeout(Self, seconds, ok),
                   "set_connection_timeout", <<seconds>>, FALSE)

SetMaxTemperature ==
    \E celsius \in TemperatureArgs, ok \in BOOLEAN :
       DoneCommand(set_max_temperature(Self, celsius, ok),
                   "set_max_temperature", <<celsius>>, FALSE)

SetMaxVoltage ==
    \E voltage \in MaxVoltageArgs, ok \in BOOLEAN :
       DoneCommand(set_max_voltage(Self, voltage, ok), "set_max_voltage", <<voltage>>, FALSE)

SetMinVoltage ==
    \E voltage \in MinVoltageArgs, ok \in BOOLEAN :
       DoneCommand(set_min_voltage(Self, voltage, ok), "set_min_voltage", <<voltage>>, FALSE)

SetDirectWorkMode ==
    \E enabled \in BOOLEAN, ok \in BOOLEAN :
       DoneCommand(set_direct_work_mode(Self, enabled, ok),
                   "set_direct_work_mode", <<>>, enabled)

SetLedBrightness ==
    \E level \in LedArgs, ok \in BOOLEAN :
       DoneCommand(set_led_brightness(Self, level, ok), "set_led_brightness", <<level>>, FALSE)

SetStopOnDisconnect ==
    \E enabled \in BOOLEAN, ok \in BOOLEAN :
       DoneCommand(set_stop_on_disconnect(Self, enabled, ok),
                   "set_stop_on_disconnect", <<>>, enabled)

StartCharging ==
    \E ok \in BOOLEAN :
       DoneCommand(start_charging(Self, ok), "start_charging", <<>>, FALSE)

StopCharging ==
    \E session_id \in SessionIdArgs, now \in NowArgs, ok \in BOOLEAN :
       DoneCommand(stop_charging(Self, session_id, now, ok),
                   "stop_charging", session_id \o now, FALSE)

GetMaxCurrent ==
    Done(get_max_current(Self).self,
         CallRec("get_max_current", <<>>, FALSE, get_max_current(Self).ret, NoStatus, <<>>))

\* the caller has looked at the result and is ready for the next call
Return ==
    /\ pc = "returned"
    /\ pc' = "idle"
    /\ call' = NoCall
    /\ events' = <<>>
    /\ UNCHANGED <<sock, sequence, last_good_status, device_id, sockets,
                   n_handshakes, n_commands, last_101, last_genuine>>
    /\ UNCHANGED codec_vars
    /\ UNCHANGED monitor_vars

Next ==
    \/ Connect
    \/ Disconnect
    \/ GetStatus
    \/ SetMaxCurrent
    \/ SetConfig
    \/ SetConnectionTimeout
    \/ SetMaxTemperature
    \/ SetMaxVoltage
    \/ SetMinVoltage
    \/ SetDirectWorkMode
    \/ SetLedBrightness
    \/ SetStopOnDisconnect
    \/ StartCharging
    \/ StopCharging
    \/ GetMaxCurrent
    \/ Return

Spec == Init /\ [][Next]_vars

(***************************************************************************)
(* monitor: the polling loop, one action for each line the call can be at. *)
(***************************************************************************)
\* longest duration monitor is called with, in clock units
MaxDuration == 2

\* get_status() as monitor calls it: retries: int = 3
DefaultRetries == 3

\* None, and every whole number of units from -1 to MaxDuration
Durations == {NoDuration} \cup {Seconds(v) : v \in -1 .. MaxDuration}

\* the clock units one pass of the loop takes: the sleep, and the reads
Intervals == {1}

\* what the reads of one pass may meet: errors or timeouts, keepalives, and
\* a status frame
TickReads == {ReadErr, Read(KeepaliveFrame), Read(StatusFrameB)}

TickRuns ==
    {r \in Runs[DefaultRetries] : \A i \in 1 .. Len(r) : r[i] \in TickReads}

\* elapsed is kept exact up to MaxDuration + 1; beyond it every comparison
\* with a duration of Durations has the same outcome
Later(e, d) == IF e + d > MaxDuration + 1 THEN MaxDuration + 1 ELSE e + d

\* line 751: `duration and (time.time() - start_time) > duration`
Expired(d, e) == d.given /\ d.v # 0 /\ e > d.v

\* lines 751-752: where the test of the loop head leads
AfterTest(d, e) == IF Expired(d, e) THEN "done" ELSE "tick"

\* the pass of the loop without its `except Exception`: an error of
\* get_status leaves the loop
AfterTickPropagating(kind, has_callback) ==
    IF kind = "raise" THEN "done"
    ELSE IF kind = "status" /\ has_callback THEN "callback" ELSE "sleep"

\* lines 755-764: the callback is called if get_status returned a status and
\* a callback was given; an error is logged, and the sleep comes next
AfterTick(kind, has_callback) ==
    IF kind = "status" /\ has_callback THEN "callback" ELSE "sleep"

\* lines 758, 763-766: whether the callback returns or raises, the sleep
\* comes next
AfterCallback(cb_raised) == "sleep"

\* line 747, and the entry of the loop
Monitor ==
    /\ pc = "idle"
    /\ mpc = "off"
    /\ pc' = "monitor"
    /\ mpc' = "test"
    /\ duration' \in Durations
    /\ interval' \in Intervals
    /\ callback' \in BOOLEAN
    /\ elapsed' = 0
    /\ tick' = NoTick
    /\ prev_tick' = NoTick
    /\ stop' = "none"
    /\ UNCHANGED <<sock, sequence, last_good_status, device_id, sockets, call,
                   events, n_handshakes, n_commands, last_101, last_genuine>>
    /\ UNCHANGED codec_vars

\* lines 750-752
MonitorTest ==
    /\ mpc = "test"
    /\ mpc' = AfterTest(duration, elapsed)
    /\ stop' = IF Expired(duration, elapsed) THEN "break" ELSE stop
    /\ UNCHANGED <<duration, interval, callback, elapsed, tick, prev_tick>>
    /\ UNCHANGED session_vars
    /\ UNCHANGED codec_vars

\* r is what self.get_status() came to
DoneTick(r) ==
    /\ sock' = r.self.sock
    /\ sequence' = r.self.sequence
    /\ last_good_status' = r.self.last_good_status
    /\ sockets' = r.self.sockets
    /\ events' = r.self.events
    /\ last_genuine' = LastOr(Genuine(r.self.events), last_genuine)
    /\ prev_tick' = tick
    /\ tick' = Tick(r.kind, r.status, FALSE, FALSE)
    /\ mpc' = AfterTick(r.kind, callback)

\* lines 754-756 and 763-764
MonitorTick ==
    /\ mpc = "tick"
    /\ \E reads \in TickRuns :
          \E r \in {get_status(Self, DefaultRetries, TRUE, reads)} : DoneTick(r)
    /\ UNCHANGED <<device_id, pc, call, n_handshakes, n_commands, last_101>>
    /\ UNCHANGED <<duration, interval, callback, elapsed, stop>>
    /\ UNCHANGED codec_vars

\* lines 757-758 and 763-764: callback(status) returns or raises
MonitorCallback ==
    /\ mpc = "callback"
    /\ \E cb_raised \in BOOLEAN :
          /\ tick' = [tick EXCEPT !.called = TRUE, !.cb_raised = cb_raised]
          /\ mpc' = AfterCallback(cb_raised)
    /\ UNCHANGED <<duration, interval, callback, elapsed, prev_tick, stop>>
    /\ UNCHANGED session_vars
    /\ UNCHANGED codec_vars

\* line 766
MonitorSleep ==
    /\ mpc = "sleep"
    /\ elapsed' = Later(elapsed, interval)
    /\ mpc' = "test"
    /\ UNCHANGED <<duration, interval, callback, tick, prev_tick, stop>>
    /\ UNCHANGED session_vars
    /\ UNCHANGED codec_vars

\* lines 768-769: a KeyboardInterrupt, delivered at any line of the loop
MonitorInterrupt ==
    /\ mpc \in {"test", "tick", "callback", "sleep"}
    /\ mpc' = "done"
    /\ stop' = "interrupt"
    /\ UNCHANGED <<duration, interval, callback, elapsed, tick, prev_tick>>
    /\ UNCHANGED session_vars
    /\ UNCHANGED codec_vars

\* monitor returns None
MonitorReturn ==
    /\ mpc = "done"
    /\ mpc' = "off"
    /\ pc' = "returned"
    /\ call' = CallRec("monitor", <<>>, callback, "None", NoStatus, <<>>)
    /\ UNCHANGED <<sock, sequence, last_good_status, device_id, sockets,
                   events, n_handshakes, n_commands, last_101, last_genuine>>
    /\ UNCHANGED <<duration, interval, callback, elapsed, tick, prev_tick, stop>>
    /\ UNCHANGED codec_vars

\* connect() on the session as constructed
ConnectOnce == sockets = <<>> /\ Connect

\* the steps monitor takes by itself
MonitorPass == MonitorTest \/ MonitorTick \/ MonitorCallback \/ MonitorSleep

NextMonitor ==
    \/ ConnectOnce
    \/ Monitor
    \/ MonitorTest
    \/ MonitorTick
    \/ MonitorCallback
    \/ MonitorSleep
    \/ MonitorInterrupt
    \/ MonitorReturn
    \/ Return

SpecMonitor == Init /\ [][NextMonitor]_vars

\* each get_status call, each callback and each sleep returns, and the loop
\* head is run when it is reached; a KeyboardInterrupt need never come
SpecMonitorFair == SpecMonitor /\ WF_vars(MonitorPass)

(***************************************************************************)
(* The codec on its own: decode_message and _get_status_once applied to    *)
(* buffers put together from the pieces below.                             *)
(***************************************************************************)
\* most pieces a buffer is put together from
MaxPieces == 2

\* 230.0 and 16.0 as little-endian floats (fields 1 and 2), field 17 = 2
PayloadFloats ==
    <<13, 0, 0, 102, 67, 21, 0, 0, 128, 65>> \o encode_varint_field(17, 2)
\* {1: 100, 17: 200}; the byte 200 keeps it from being UTF-8 text
PayloadVarints == encode_varint_field(1, 100) \o encode_varint_field(17, 200)
\* {1: 100, 2: 16}: bytes that are also valid UTF-8 text
PayloadAscii == encode_varint_field(1, 100) \o encode_varint_field(2, 16)
\* {3: 200}: none of the fields 1, 2, 8, 17
PayloadNoKey == encode_varint_field(3, 200)

\* "X", a message-type tag that is neither of the two known ones
OtherReq == <<88>>

\* the inner containers (field 16 of a frame)
Containers ==
    { encode_string(2, DataContinueReq),
      encode_string(2, DataContinueReq) \o PayloadVarints,
      encode_string(2, DataVendorStatusReq) \o encode_embedded_message(10, PayloadFloats),
      encode_string(2, DataVendorStatusReq) \o encode_embedded_message(12, PayloadVarints),
      encode_string(2, DataVendorStatusReq) \o encode_embedded_message(10, PayloadNoKey),
      encode_string(2, OtherReq) \o encode_embedded_message(12, PayloadVarints),
      encode_string(2, OtherReq) \o encode_embedded_message(10, PayloadVarints)
         \o encode_embedded_message(12, PayloadFloats),
      encode_string(2, OtherReq) \o encode_embedded_message(10, PayloadAscii)
         \o encode_varint_field(17, 200),
      PayloadVarints,
      PayloadNoKey }

\* tags of the wire types 3, 4, 6 and 7 (field 1)
UnsupportedTags == {<<11>>, <<12>>, <<14>>, <<15>>}

\* field 3, length-delimited, declared length 5
TruncatedHead == <<26, 5>>

\* field 17 as a 32-bit float +inf, field 4 = "A", field 100 = 1 (a varint)
FloatInf17 == <<141, 1, 0, 0, 128, 127>>
DeviceInfoText == encode_string(4, <<65>>)
DeviceIdNumber == encode_varint_field(100, 1)

\* messages wrapped as field 10: the empty one, one that is not UTF-8 text
\* and one that is
EmbeddedMessages == {<<>>, PayloadVarints, PayloadAscii}

Pieces ==
    {encode_embedded_message(16, c) : c \in Containers}
    \cup {encode_embedded_message(10, x) : x \in EmbeddedMessages}
    \cup UnsupportedTags
    \cup {TruncatedHead, FloatInf17, DeviceInfoText, DeviceIdNumber,
          encode_varint_field(1, 100), encode_varint_field(1, 0),
          encode_varint_field(2, 16), encode_varint_field(3, 1)}

RECURSIVE Concat(_)
Concat(ps) == IF ps = <<>> THEN <<>> ELSE Head(ps) \o Concat(Tail(ps))

Buffers ==
    {Concat(ps) : ps \in UNION {[1 .. k -> Pieces] : k \in 0 .. MaxPieces}}

InitCodec ==
    /\ Constructed
    /\ buffer \in Buffers
    /\ codec_pc = "input"
    /\ decoded = EmptyDict
    /\ outcome = OnceNone
    /\ VarintOff
    /\ LoopOff
    /\ MonitorOff

\* ProtobufDecoder.decode_message(buffer)
DecodeMessage ==
    /\ codec_pc = "input"
    /\ decoded' = decode_message(buffer)
    /\ codec_pc' = "decoded"
    /\ UNCHANGED <<buffer, outcome, number, varint, loop_offset, loop_fields, loop_stored>>
    /\ UNCHANGED session_vars
    /\ UNCHANGED monitor_vars

\* _get_status_once with recv returning buffer; decoded is its outer_fields
GetStatusOnce ==
    /\ codec_pc = "input"
    /\ decoded' = decode_message(buffer)
    /\ outcome' = StatusOfResponse(buffer)
    /\ codec_pc' = "read"
    /\ UNCHANGED <<buffer, number, varint, loop_offset, loop_fields, loop_stored>>
    /\ UNCHANGED session_vars
    /\ UNCHANGED monitor_vars

\* decode_message handed a value that decode_message produced: bytes are
\* decoded; of a str the loop (line 89) is entered unless it is empty, and
\* `byte & 0x7F` (line 75) raises TypeError on its first character
DecodeOfValue(val) ==
    IF val.t = "bytes" THEN [raised |-> FALSE, fields |-> decode_message(val.b)]
    ELSE IF val.b = <<>> THEN [raised |-> FALSE, fields |-> EmptyDict]
    ELSE [raised |-> TRUE, fields |-> EmptyDict]

\* ProtobufDecoder.decode_message(decoded[10]), the nested decode of a
\* sub-message
DecodeNested ==
    /\ codec_pc = "decoded"
    /\ Has(decoded, 10)
    /\ decoded[10].t \in {"str", "bytes"}
    /\ loop_fields' = DecodeOfValue(decoded[10]).fields
    /\ codec_pc' = IF DecodeOfValue(decoded[10]).raised THEN "nested_raised" ELSE "nested"
    /\ UNCHANGED <<buffer, decoded, outcome, number, varint, loop_offset, loop_stored>>
    /\ UNCHANGED session_vars
    /\ UNCHANGED monitor_vars

NextCodec == DecodeMessage \/ GetStatusOnce \/ DecodeNested

SpecCodec == InitCodec /\ [][NextCodec]_vars

(***************************************************************************)
(* The varint round trip: encode_varint, then decode_varint at offset 0.   *)
(* Python integers have no width: the integer is three 16-bit limbs, least *)
(* significant first.                                                      *)
(***************************************************************************)
\* the integers 0 .. MaxNumber are all tried
MaxNumber == 300

Wide3(n) == <<n % 65536, n \div 65536, 0>>

\* 0 .. MaxNumber, 16384, 2^31 - 1, 2^32 - 1, 2^32 and 2^35 + 2^16 + 1
Numbers ==
    {Wide3(n) : n \in 0 .. MaxNumber}
    \cup {Wide3(16384), <<65535, 32767, 0>>, <<65535, 65535, 0>>, <<0, 0, 1>>, <<1, 1, 8>>}

\* result |= (byte & 0x7F) << shift on limbs: the bits set are new ones
WideOr(w, low7, shift) ==
    LET i == shift \div 16
        c == low7 * Pow2(shift % 16)
    IN  [k \in 1 .. Len(w) |->
            w[k] + (IF k = i + 1 THEN c % 65536
                    ELSE IF k = i + 2 THEN c \div 65536 ELSE 0)]

\* the loop of decode_varint on limbs
RECURSIVE DecodeVarintWideLoop(_, _, _, _)
DecodeVarintWideLoop(data, at, result, shift) ==
    IF at < Len(data)
    THEN LET byte == data[at + 1]
             r    == WideOr(result, byte % 128, shift)
         IN  IF byte < 128
             THEN Varint(r, at + 1)
             ELSE DecodeVarintWideLoop(data, at + 1, r, shift + 7)
    ELSE Varint(result, at)

decode_varint_wide(data, at) == DecodeVarintWideLoop(data, at, <<0, 0, 0>>, 0)

InitVarint ==
    /\ Constructed
    /\ MonitorOff
    /\ LoopOff
    /\ buffer = <<>>
    /\ codec_pc = "number"
    /\ decoded = EmptyDict
    /\ outcome = OnceNone
    /\ number \in Numbers
    /\ varint = Varint(<<0, 0, 0>>, 0)

\* ProtobufEncoder.encode_varint(number)
EncodeVarint ==
    /\ codec_pc = "number"
    /\ buffer' = encode_varint_wide(number)
    /\ codec_pc' = "encoded"
    /\ UNCHANGED <<decoded, outcome, number, varint, loop_offset, loop_fields, loop_stored>>
    /\ UNCHANGED session_vars
    /\ UNCHANGED monitor_vars

\* ProtobufDecoder.decode_varint(buffer, 0)
DecodeVarint ==
    /\ codec_pc = "encoded"
    /\ varint' = decode_varint_wide(buffer, 0)
    /\ codec_pc' = "roundtrip"
    /\ UNCHANGED <<buffer, decoded, outcome, number, loop_offset, loop_fields, loop_stored>>
    /\ UNCHANGED session_vars
    /\ UNCHANGED monitor_vars

NextVarint == EncodeVarint \/ DecodeVarint

SpecVarint == InitVarint /\ [][NextVarint]_vars

(***************************************************************************)
(* decode_message one pass of its while loop at a time.                    *)
(***************************************************************************)
\* what the loop is run on: whole fields of each wire type the decoder
\* knows, two values of field 1, tags of wire types it does not know, and
\* fields cut short in the key's varint, in a length and in a fixed-width
\* value
LoopPieces ==
    {encode_varint_field(1, 100), encode_varint_field(1, 0),
     DeviceInfoText, FloatInf17, encode_embedded_message(10, PayloadVarints),
     <<11>>, <<15>>, TruncatedHead, <<8, 128>>, <<13, 0>>, <<9, 1>>}

LoopBuffers ==
    {Concat(ps) : ps \in UNION {[1 .. k -> LoopPieces] : k \in 0 .. MaxPieces}}

InitDecode ==
    /\ Constructed
    /\ MonitorOff
    /\ VarintOff
    /\ LoopOff
    /\ buffer \in LoopBuffers
    /\ codec_pc = "loop"
    /\ decoded = EmptyDict
    /\ outcome = OnceNone

DonePass(p) ==
    /\ loop_offset' = p.offset
    /\ loop_fields' = p.fields
    /\ loop_stored' = loop_stored \o p.stored

\* line 89 holds: one pass
DecodeStep ==
    /\ codec_pc = "loop"
    /\ loop_offset < Len(buffer)
    /\ DonePass(DecodePass(buffer, loop_offset, loop_fields))
    /\ UNCHANGED <<buffer, codec_pc, decoded, outcome, number, varint>>
    /\ UNCHANGED session_vars
    /\ UNCHANGED monitor_vars

\* line 89 fails: `return fields`
DecodeReturn ==
    /\ codec_pc = "loop"
    /\ ~(loop_offset < Len(buffer))
    /\ decoded' = loop_fields
    /\ codec_pc' = "decoded"
    /\ UNCHANGED <<buffer, outcome, number, varint, loop_offset, loop_fields, loop_stored>>
    /\ UNCHANGED session_vars
    /\ UNCHANGED monitor_vars

NextDecode == DecodeStep \/ DecodeReturn

SpecDecode == InitDecode /\ [][NextDecode]_vars

\* the loop is straight-line code: a pass that can run does run
SpecDecodeFair == SpecDecode /\ WF_vars(NextDecode)

(***************************************************************************)
(* Properties.  They are read in the state a call leaves (pc = "returned"): *)
(* call says what was called, with what, from which state (call.pre) and   *)
(* what came back; events are the socket calls it made.                    *)
(***************************************************************************)
After(op) == pc = "returned" /\ call.op = op

Polled == After("get_status")

\* the session held a cached status when the call started
HadCache == call.pre.last_good_status.some

\* the call started on a session whose handle refers to a connected socket
WasReady ==
    /\ call.pre.sock # None
    /\ call.pre.sockets[call.pre.sock].state = "connected"

\* every one of the retries >= 1 attempts of the call raised
AllAttemptsRaise ==
    /\ Polled
    /\ call.arg[1] >= 1
    /\ Len(call.trace) = call.arg[1]
    /\ \A i \in 1 .. Len(call.trace) : call.trace[i] = "raise"

\* C1: a get_status call with retries >= 1 whose every attempt raises returns
\* the cached status when use_cache is true and a cached status exists, and
\* otherwise lets the error of the final attempt reach the caller.
C1_AllAttemptsRaise ==
    AllAttemptsRaise =>
       IF call.flag /\ HadCache
       THEN call.ret = "status" /\ call.status = call.pre.last_good_status
       ELSE call.ret = "raise"

\* three attempts raise, one of them on bytes that were read, and the cache
\* is returned
C1_Witness ==
    /\ AllAttemptsRaise
    /\ call.arg[1] = 3
    /\ \E i \in 1 .. Len(events) : events[i].ev = "recv" /\ events[i].ok
    /\ call.flag /\ HadCache
    /\ call.ret = "status"

\* C2: the first attempt of get_status that decodes a genuine status ends the
\* call: it is the only status read and the last socket call of the call, it
\* is the return value and the session cache, and no error of an earlier
\* attempt reaches the caller.
C2_FirstStatusEnds ==
    (Polled /\ Genuine(events) # <<>>) =>
       /\ Len(Genuine(events)) = 1
       /\ GenuineIn(events[Len(events)]) = Genuine(events)
       /\ Len(call.trace) = Len(events)
       /\ call.ret = "status"
       /\ call.status = Genuine(events)[1]
       /\ last_good_status = Genuine(events)[1]

\* of three attempts the first raises and the second brings a status, which
\* replaces another cached status; the third attempt never runs
C2_Witness ==
    /\ Polled
    /\ call.arg[1] = 3
    /\ call.trace = <<"raise", "status">>
    /\ HadCache
    /\ last_good_status # call.pre.last_good_status

\* every attempt of the call ran, none brought a status, the final one did
\* not raise
Exhausted ==
    /\ Polled
    /\ Len(call.trace) = call.arg[1]
    /\ \A i \in 1 .. Len(call.trace) : call.trace[i] # "status"
    /\ call.trace # <<>> => call.trace[Len(call.trace)] # "raise"

\* C3: when all attempts of get_status are used up, the final one without
\* raising and none with a genuine status, the call returns the cached status
\* if use_cache is true and a cache exists, None otherwise; it does not raise.
C3_Exhausted ==
    Exhausted =>
       IF call.flag /\ HadCache
       THEN call.ret = "status" /\ call.status = call.pre.last_good_status
       ELSE call.ret = "None"

\* a keepalive on the final attempt, a cache that use_cache = False keeps away
C3_Witness ==
    /\ Exhausted
    /\ call.trace = <<"raise", "none">>
    /\ ~call.flag /\ HadCache
    /\ call.ret = "None"

\* C4: in every reachable state the cached status is the most recent genuine
\* status a get_status call decoded (whatever its use_cache), absent if there
\* was none; a poll that decodes no genuine status leaves the cache as it was.
C4_CacheIsLastGenuine ==
    /\ last_good_status = last_genuine
    /\ (Polled /\ Genuine(events) = <<>>) =>
          last_good_status = call.pre.last_good_status

\* a poll that fails, with use_cache = False, on a session whose cache holds
\* the status of StatusFrameB
C4_Witness ==
    /\ Polled
    /\ ~call.flag
    /\ call.ret = "raise"
    /\ Len(events) >= 1
    /\ last_good_status = StatusOf(StatusFrameB).status

\* C5: in every reachable state sequence = 2 + handshakes completed + command
\* frames sent; no call lowers it, and no call raises it by more than 1.
C5_SequenceCounts ==
    /\ sequence = 2 + n_handshakes + n_commands
    /\ pc = "returned" =>
          /\ call.pre.sequence <= sequence
          /\ sequence <= call.pre.sequence + 1

\* a second connect, after one command of the first connection
C5_Witness ==
    /\ After("connect")
    /\ call.ret = "True"
    /\ n_handshakes = 2
    /\ n_commands = 1
    /\ sequence = 5

\* the call is a range-validated setter with a value outside its range
OutOfRange ==
    \/ call.op = "set_max_current" /\ call.arg[1] \notin 6 .. 32
    \/ call.op = "set_connection_timeout" /\ call.arg[1] \notin 30 .. 900
    \/ call.op = "set_max_temperature" /\ call.arg[1] \notin 85 .. 95
    \/ call.op = "set_max_voltage" /\ call.arg[1] \notin 265 .. 290
    \/ call.op = "set_min_voltage" /\ call.arg[1] \notin 70 .. 110
    \/ call.op = "set_led_brightness" /\ call.arg[1] \notin {0, 1, 3}

\* C6: a range-validated setter called with an out-of-range value returns
\* False, makes no socket call and leaves sequence unchanged, whatever the
\* state of the session.
C6_OutOfRangeRejected ==
    (pc = "returned" /\ OutOfRange) =>
       /\ call.ret = "False"
       /\ events = <<>>
       /\ sequence = call.pre.sequence

\* set_led_brightness(2) on a connected session
C6_Witness ==
    /\ After("set_led_brightness")
    /\ call.arg = <<2>>
    /\ WasReady
    /\ call.ret = "False"

CommandOps ==
    {"set_max_current", "set_config", "set_connection_timeout",
     "set_max_temperature", "set_max_voltage", "set_min_voltage",
     "set_direct_work_mode", "set_led_brightness", "set_stop_on_disconnect",
     "start_charging", "stop_charging"}

\* the call is a command that passed validation on a connected session
CommandOnReady ==
    /\ pc = "returned"
    /\ call.op \in CommandOps
    /\ ~OutOfRange
    /\ WasReady

EndsWith(frame, tail) ==
    /\ Len(frame) >= Len(tail)
    /\ SubSeq(frame, Len(frame) - Len(tail) + 1, Len(frame)) = tail

\* the call made one socket call, a send of a frame that ends with the device
\* id (field 100) and the sequence the call started from (field 101)
OneFrame ==
    /\ Len(events) = 1
    /\ events[1].ev = "send"
    /\ EndsWith(events[1].data,
                encode_string(100, device_id)
                \o encode_varint_field(101, call.pre.sequence))

\* C7 (as the code has it): a command that passes validation on a connected
\* session makes exactly one send, of a frame that ends with the device id
\* and the pre-increment sequence; if the send goes through, sequence grows
\* by 1 and the call returns True, and the frame's field 101 is greater than
\* that of the command frame before it; if the send fails, sequence is
\* unchanged and the call returns False.
C7_OneFrameIncreasing ==
    [][CommandOnReady' =>
          /\ OneFrame'
          /\ events'[1].ok =>
                /\ sequence' = call'.pre.sequence + 1
                /\ call'.ret = "True"
                /\ last_101' = call'.pre.sequence
                /\ last_101' > last_101
          /\ ~events'[1].ok =>
                /\ sequence' = call'.pre.sequence
                /\ call'.ret = "False"
                /\ last_101' = last_101]_vars

\* the second command frame of a session that has connected twice
C7_Witness ==
    /\ CommandOnReady
    /\ call.op = "start_charging"
    /\ call.ret = "True"
    /\ n_handshakes = 2
    /\ n_commands = 2
    /\ last_101 = 5

\* C7 (as stated): when the send of such a command goes through, the field
\* 101 of its frame is that of the command frame before it plus 1.  It is
\* read here for the sessions whose every connect() so far completed its
\* handshake.
C7_Consecutive ==
    [][(/\ CommandOnReady' /\ OneFrame' /\ events'[1].ok
        /\ n_handshakes = Len(sockets)
        /\ n_commands >= 1) =>
          last_101' = last_101 + 1]_vars

\* C8 (as stated): when connect() returns False the session holds no socket
\* handle, and the call tried to connect once.
C8_FailureDisconnected ==
    (After("connect") /\ call.ret = "False") =>
       /\ sock = None
       /\ Len(SelectSeq(events, LAMBDA e : e.ev = "connect")) = 1

\* C9: disconnect() closes the socket of the handle once and clears the
\* handle, is a no-op on a session without a handle, touches nothing else,
\* and a second disconnect() changes nothing and closes nothing.
C9_DisconnectIdempotent ==
    /\ disconnect(disconnect(Self)) = disconnect(Self)
    /\ After("disconnect") =>
          /\ sock = None
          /\ sequence = call.pre.sequence
          /\ last_good_status = call.pre.last_good_status
          /\ IF call.pre.sock # None
             THEN /\ events = <<Ev("close", call.pre.sock, <<>>, TRUE)>>
                  /\ sockets = [call.pre.sockets EXCEPT ![call.pre.sock].state = "closed"]
             ELSE /\ events = <<>>
                  /\ sockets = call.pre.sockets

\* disconnect() of a connected session
C9_Witness ==
    /\ After("disconnect")
    /\ WasReady
    /\ sockets[call.pre.sock].state = "closed"

\* C10: a connect() that returns True made exactly these socket calls: connect,
\* send of the announcement frame, one read, send of the vendor frame, and
\* raised sequence by 1; once the announcement frame is out, the read and the
\* second send follow whatever the read meets, and the second send alone
\* decides the result.
C10_HandshakeOrder ==
    After("connect") =>
       /\ call.ret = "True" =>
             /\ Len(events) = 4
             /\ events[1] = Ev("connect", sock, <<>>, TRUE)
             /\ events[2] = Ev("send", sock, HandshakeAnnounce, TRUE)
             /\ events[3].ev = "recv" /\ events[3].sock = sock
             /\ events[4] = Ev("send", sock, HandshakeVendor, TRUE)
             /\ sequence = call.pre.sequence + 1
       /\ (Len(events) >= 2 /\ events[1].ok /\ events[2].ok) =>
             /\ Len(events) = 4
             /\ events[3].ev = "recv"
             /\ events[4].ev = "send"
             /\ call.ret = Bool(events[4].ok)

\* a connect() that returns True although its drain read failed
C10_Witness ==
    /\ After("connect")
    /\ call.ret = "True"
    /\ ~events[3].ok

\* the fixed bytes around the device id in msg2 of _send_handshake
VendorPrefix == <<26, 10, 8, 158, 230, 218, 145, 13, 16, 0, 24, 0>>
VendorSuffix == <<168, 6, 158, 129, 128, 64>>

\* C11 (as stated): the second frame connect() sends is the fixed prefix, the
\* session's device id as ASCII bytes (bare, or as field 100 the way command
\* frames carry it), and the fixed suffix.
C11_VendorFrameCarriesDeviceId ==
    (After("connect") /\ Len(events) = 4) =>
       \/ events[4].data = VendorPrefix \o device_id \o VendorSuffix
       \/ events[4].data = VendorPrefix \o encode_string(100, device_id) \o VendorSuffix

\* the first tag of the buffer has wire type 3, 4, 6 or 7
FirstTagUnsupported ==
    /\ buffer # <<>>
    /\ buffer[1] < 128
    /\ buffer[1] % 8 \in {3, 4, 6, 7}

\* C12 (as stated): decode_message does not return a field dictionary for a
\* buffer in which it reaches a tag of wire type 3, 4, 6 or 7 (here: the
\* buffer starts with one); it fails at that tag.
C12_UnsupportedWireTypeFails ==
    ~(codec_pc = "decoded" /\ FirstTagUnsupported)

\* the buffer is `before`, then a length-delimited field that declares 5
\* bytes, then fewer than 5 bytes
TruncatedAfter(before) ==
    /\ Len(buffer) >= Len(before) + 2
    /\ SubSeq(buffer, 1, Len(before) + 2) = before \o TruncatedHead
    /\ Len(buffer) - (Len(before) + 2) < 5

\* C13 (as stated): when decode_message reaches a length-delimited field whose
\* declared length exceeds the rest of the buffer, it returns exactly the
\* fields decoded before that field (here: none, or field 1 = 100): nothing
\* after the length prefix is read as a tag or a field.
C13_TruncatedFieldStops ==
    codec_pc = "decoded" =>
       \A before \in {<<>>, encode_varint_field(1, 100)} :
          TruncatedAfter(before) => decoded = decode_message(before)

\* the bytes of a length-delimited field, text or not
IsBlob(fs, k) == Has(fs, k) /\ fs[k].t \in {"str", "bytes"}

\* the sub-fields of the inner container of the frame read (its field 16)
InnerOf(fs) == decode_message(fs[16].b)

\* the frame read has an inner container whose sub-field 2 is "DataContinueReq"
KeepaliveEnvelope ==
    /\ IsBlob(decoded, 16)
    /\ IsText(InnerOf(decoded), 2, DataContinueReq)

\* C14 (as stated): a status read of a frame whose field 16 is an inner
\* container with sub-field 2 = "DataContinueReq" yields no status, whatever
\* else the frame or the container carries, and whether or not the container
\* bytes are valid UTF-8.
C14_KeepaliveYieldsNone ==
    (codec_pc = "read" /\ KeepaliveEnvelope) => outcome.kind = "none"

\* sub-field 10 if present, else sub-field 12 if present, else the container's
\* own fields
PayloadByRule(inner) ==
    IF IsBlob(inner, 10) THEN decode_message(inner[10].b)
    ELSE IF IsBlob(inner, 12) THEN decode_message(inner[12].b)
    ELSE inner

\* C15 (as stated): for a frame whose inner container has a message-type tag
\* other than "DataContinueReq", the status payload is sub-field 10 if
\* present, else sub-field 12 if present, else the container's own fields.
C15_PayloadChoice ==
    (/\ codec_pc = "read"
     /\ IsBlob(decoded, 16)
     /\ ~IsText(InnerOf(decoded), 2, DataContinueReq)
     /\ ~DeviceInfoRaises(decoded)) =>
       Unwrap(decoded).fields = PayloadByRule(InnerOf(decoded))

\* the payload the read selected holds one of the fields 1, 2, 8, 17
SelectedHasKeyField ==
    /\ buffer # <<>>
    /\ ~Unwrap(decoded).skip
    /\ \E k \in {1, 2, 8, 17} : Has(Unwrap(decoded).fields, k)

\* C16 (as stated): a status read returns a status exactly when the payload
\* it selected holds one of the fields 1, 2, 8, 17, and yields no status,
\* without an error, when it holds none of them or the read was empty.
C16_StatusIffKeyField ==
    codec_pc = "read" =>
       outcome.kind = IF SelectedHasKeyField THEN "status" ELSE "none"

\* voltage * current when both are above 0, else 0
PowerRule(st) ==
    st.power = IF st.voltage.k # "nan" /\ st.voltage.pos
                  /\ st.current.k # "nan" /\ st.current.pos
               THEN Times(st.voltage, st.current)
               ELSE Fin(0)

\* C17: every status get_status returns, decoded by the call or taken from
\* the cache, and every status the cache holds, has power = voltage * current
\* when voltage > 0 and current > 0, and power = 0 otherwise; a status decoded
\* by the call owes nothing to the status cached before it.
C17_PowerDerived ==
    /\ last_good_status.some => PowerRule(last_good_status)
    /\ (Polled /\ call.ret = "status") =>
          /\ PowerRule(call.status)
          /\ Genuine(events) # <<>> =>
                /\ call.status = StatusOf(events[Len(events)].data).status
                /\ call.status.voltage = Fin(230)
                /\ call.status.power =
                      IF call.status.current = Fin(16) THEN Fin(3680) ELSE Fin(0)

\* a poll that decodes a status with current 0, so power 0, on a session
\* whose cache held a status with power 3680
C17_Witness ==
    /\ Polled
    /\ call.ret = "status"
    /\ Genuine(events) # <<>>
    /\ call.pre.last_good_status.some
    /\ call.pre.last_good_status.power = Fin(3680)
    /\ call.status.current = Fin(0)
    /\ call.status.power = Fin(0)

\* C18 (as stated): a monitor call given a duration, 0 included, comes to its
\* end, KeyboardInterrupt or not, as long as every get_status call, callback
\* and sleep returns.
C18_GivenDurationTerminates ==
    (mpc = "test" /\ duration.given) ~> (mpc = "done")

\* the pass of the loop that is under way, or the last one, met an error
Erred(t) == t.kind = "raise" \/ t.cb_raised

\* C19: in monitor, unless a KeyboardInterrupt arrives, the pass of the loop
\* goes from get_status to the callback exactly if get_status returned a
\* status and a callback was given, and otherwise, error or not, to the
\* sleep; from the callback, error or not, to the sleep; from the sleep to
\* the loop head; from there to the next get_status unless the duration has
\* run out.  The loop ends only by the duration test or a KeyboardInterrupt,
\* and the callback is called only with a status get_status returned in the
\* same pass.
C19_ErrorsNeverEndLoop ==
    [][ /\ stop' # "interrupt" =>
            /\ mpc = "tick" =>
                  mpc' = IF tick'.kind = "status" /\ callback
                         THEN "callback" ELSE "sleep"
            /\ mpc = "callback" => mpc' = "sleep"
            /\ mpc = "sleep" => mpc' = "test" /\ tick' = tick
            /\ mpc = "test" =>
                  mpc' = IF duration.given /\ duration.v # 0 /\ elapsed > duration.v
                         THEN "done" ELSE "tick"
        /\ mpc' = "done" => stop' \in {"break", "interrupt"}
        /\ tick'.called =>
              /\ tick'.kind = "status"
              /\ tick'.status.some
              /\ callback
        /\ (mpc = "callback" /\ mpc' = "sleep") => tick'.called
      ]_vars

\* get_status is about to be called again after two passes that met an
\* error: in the first get_status raised, in the second the callback did
C19_Witness ==
    /\ mpc = "tick"
    /\ stop = "none"
    /\ prev_tick.kind = "raise"
    /\ tick.kind = "status" /\ tick.called /\ tick.cb_raised

\* t mod 2^32 for t = <<l0, l1, l2>>: its two low limbs
Mod2to32(now) == <<now[1], now[2]>>

\* C20 (as stated): stop_charging() called without a session id at the time
\* of t milliseconds sends, as session id (field 1 of the command at field
\* 36), t mod 2^32.
C20_DefaultSessionIdMod2to32 ==
    (After("stop_charging") /\ Len(call.arg) = 3 /\ Sent(events) # <<>>) =>
       Sent(events)[1].data =
          encode_embedded_message(36,
             encode_varint(Tag(1, 0)) \o encode_varint_wide(Mod2to32(call.arg)))
          \o encode_string(100, device_id)
          \o encode_varint_field(101, call.pre.sequence)

\* the number fits the integers of the decoder's plain model: below 2^31
Narrow(w) == w[3] = 0 /\ w[2] < 32768

Plain(w) == w[1] + w[2] * 65536

\* C21: for every non-negative integer v, decode_varint(encode_varint(v), 0)
\* is (v, len(encode_varint(v))), and every byte of the encoding but the
\* last has the bit 0x80 set (the last has not).
C21_VarintRoundTrip ==
    /\ codec_pc \in {"encoded", "roundtrip"} =>
          /\ buffer # <<>>
          /\ \A i \in 1 .. Len(buffer) - 1 : buffer[i] >= 128
          /\ buffer[Len(buffer)] < 128
          /\ Narrow(number) =>
                /\ encode_varint(Plain(number)) = buffer
                /\ decode_varint(buffer, 0) = <<Plain(number), Len(buffer)>>
    /\ codec_pc = "roundtrip" =>
          /\ varint.value = number
          /\ varint.next = Len(buffer)

\* 2^32 - 1 has gone through encode_varint and decode_varint: five bytes
C21_Witness ==
    /\ codec_pc = "roundtrip"
    /\ number = <<65535, 65535, 0>>
    /\ buffer = <<255, 255, 255, 255, 15>>
    /\ varint = Varint(number, 5)

\* C22 (as stated): decode_message(encode_embedded_message(10, X)) is a
\* dictionary with the single key 10, whose value holds X's bytes and is
\* accepted by a nested decode_message, which returns the fields of X,
\* whether or not X is valid UTF-8.
C22_EmbeddedRoundTrip ==
    \A x \in EmbeddedMessages :
       (/\ codec_pc \in {"nested", "nested_raised"}
        /\ buffer = encode_embedded_message(10, x)) =>
          /\ DOMAIN decoded = {10}
          /\ decoded[10].b = x
          /\ codec_pc = "nested"
          /\ loop_fields = decode_message(x)

\* C23 (as stated): get_max_current() returns None on a session on which no
\* set_max_current has succeeded, and after a set_max_current(a) that
\* returned True the cached maximum current is a.
C23_MaxCurrentRemembered ==
    /\ (After("get_max_current") /\ n_commands = 0) => call.ret = "None"
    /\ (After("set_max_current") /\ call.ret = "True") =>
          cached_max_current(Self) = Str(call.arg[1])

\* attempt i of the call failed in the transport: the session held no socket,
\* or the read of the attempt raised
TransportFailed(i) ==
    /\ i \in 1 .. Len(call.trace)
    /\ call.trace[i] = "raise"
    /\ call.pre.sock = None \/ ~events[i].ok

\* C24 as stated: a get_status call in which some attempt failed in the
\* transport and no genuine status was read raises, unless use_cache is true
\* and a cached status exists.
C24_FailureNeverLost ==
    (Polled /\ Genuine(events) = <<>> /\ \E i \in 1 .. MaxRetries : TransportFailed(i)) =>
       \/ call.ret = "raise"
       \/ call.flag /\ HadCache

\* C24: a transport failure on the final attempt of a get_status call is not
\* lost: the call returns the cached status when use_cache is true and a
\* cached status exists, and raises otherwise.  A transport failure on an
\* earlier attempt is dropped and the next attempt runs.
C24_FinalFailureNeverLost ==
    Polled =>
       /\ \A i \in 1 .. MaxRetries :
             (TransportFailed(i) /\ i < call.arg[1]) => Len(call.trace) > i
       /\ TransportFailed(Len(call.trace)) =>
             /\ Len(call.trace) = call.arg[1]
             /\ IF call.flag /\ HadCache
                THEN call.ret = "status" /\ call.status = call.pre.last_good_status
                ELSE call.ret = "raise"

\* a keepalive, then a read that fails on the final attempt, no cache allowed
C24_Witness ==
    /\ Polled
    /\ call.trace = <<"none", "raise">>
    /\ TransportFailed(2)
    /\ ~call.flag /\ HadCache
    /\ call.ret = "raise"

\* the socket reads and the socket writes of the call
SocketReads(evs) == SelectSeq(evs, LAMBDA e : e.ev = "recv")
SocketWrites(evs) == SelectSeq(evs, LAMBDA e : e.ev = "send")

\* get_status(0, use_cache): no attempt, the cache if allowed and present
ZeroRetries ==
    call.arg[1] = 0 =>
       /\ call.trace = <<>>
       /\ events = <<>>
       /\ IF call.flag /\ HadCache
          THEN call.ret = "status" /\ call.status = call.pre.last_good_status
          ELSE call.ret = "None"

\* C25 as stated: a get_status call makes at most `retries` socket reads,
\* exactly one in each attempt, and no socket write; with retries = 0 it
\* reads nothing and returns the cache (if allowed and present) or None.
C25_OneReadPerAttempt ==
    Polled =>
       /\ Len(SocketReads(events)) <= call.arg[1]
       /\ Len(SocketReads(events)) = Len(call.trace)
       /\ SocketWrites(events) = <<>>
       /\ ZeroRetries

\* C25: a get_status call makes at most `retries` attempts and at most one
\* socket read in each: exactly one when the session holds a socket handle,
\* none when it holds none (the attempt raises before it reads); it makes no
\* socket write; with retries = 0 it reads nothing and returns the cache (if
\* allowed and present) or None.
C25_AtMostOneReadPerAttempt ==
    Polled =>
       /\ Len(call.trace) <= call.arg[1]
       /\ Len(SocketReads(events)) =
             IF call.pre.sock = None THEN 0 ELSE Len(call.trace)
       /\ SocketWrites(events) = <<>>
       /\ ZeroRetries

\* three attempts, three reads
C25_Witness ==
    /\ Polled
    /\ call.arg[1] = 3
    /\ Len(call.trace) = 3
    /\ Len(SocketReads(events)) = 3
    /\ call.pre.sock # None

\* the call is a command that ran on a session without a socket handle, or
\* a command whose send raised
CommandFailed ==
    /\ pc = "returned"
    /\ call.op \in CommandOps
    /\ \/ call.pre.sock = None
       \/ \E i \in 1 .. Len(events) : events[i].ev = "send" /\ ~events[i].ok

\* C26: a command operation on a session without a socket handle, or whose
\* send fails, returns False (it does not raise) and leaves sequence, the
\* socket handle and the cached status as they were.
C26_FailedCommandChangesNothing ==
    CommandFailed =>
       /\ call.ret = "False"
       /\ sequence = call.pre.sequence
       /\ sock = call.pre.sock
       /\ last_good_status = call.pre.last_good_status

\* a valid command whose send fails on a connected session that holds a
\* cached status
C26_Witness ==
    /\ CommandFailed
    /\ call.op = "start_charging"
    /\ WasReady
    /\ HadCache
    /\ call.pre.sequence > 2
    /\ call.ret = "False"

\* the fields with number k that the passes of decode_message stored, in
\* the order of the buffer
Occurrences(k) == SelectSeq(loop_stored, LAMBDA o : o.field_number = k)

\* C27: the dictionary of decode_message holds one entry for each field
\* number that was decoded, and its value is the value of the last occurrence
\* of that number that was decoded; the dictionary built pass by pass is the
\* one decode_message returns.
C27_LastOccurrenceWins ==
    /\ DOMAIN loop_fields = {loop_stored[i].field_number : i \in 1 .. Len(loop_stored)}
    /\ \A k \in DOMAIN loop_fields :
          loop_fields[k] = Occurrences(k)[Len(Occurrences(k))].value
    /\ codec_pc = "decoded" =>
          /\ decoded = loop_fields
          /\ decoded = decode_message(buffer)

\* field 1 = 100, then field 1 = 0: the result is {1: 0}
C27_Witness ==
    /\ codec_pc = "decoded"
    /\ buffer = <<8, 100, 8, 0>>
    /\ Len(Occurrences(1)) = 2
    /\ DOMAIN decoded = {1}
    /\ decoded[1] = IntVal(0)

\* C28: decode_message terminates on every buffer: each pass of its loop
\* moves offset forward by at least one byte, offset never exceeds the length
\* of the buffer, and the function returns.
C28_DecodeTerminates ==
    /\ [](loop_offset <= Len(buffer))
    /\ [][DecodeStep => loop_offset' > loop_offset]_vars
    /\ <>(codec_pc = "decoded")

\* a tag of wire type 3 and a truncated length-delimited field: two passes
\* that store nothing, and the function has returned
C28_Witness ==
    /\ codec_pc = "decoded"
    /\ buffer = <<11, 26, 5>>
    /\ loop_offset = 3
    /\ loop_stored = <<>>

\* C29: every socket the session has opened is either the one its handle
\* refers to or has been closed, so that the session owns at most one open
\* socket.
C29_AtMostOneOpenSocket ==
    \A i \in 1 .. Len(sockets) : i = sock \/ sockets[i].state = "closed"

\* C30: get_status leaves sequence and the socket handle as they were, and
\* every socket with the read timeout it had before the call, whether its
\* reads succeeded or failed; disconnect leaves sequence and the cached
\* status as they were; a command leaves the cached status as it was.
C30_FrameConditions ==
    /\ Polled =>
          /\ sequence = call.pre.sequence
          /\ sock = call.pre.sock
          /\ sockets = call.pre.sockets
    /\ After("disconnect") =>
          /\ sequence = call.pre.sequence
          /\ last_good_status = call.pre.last_good_status
    /\ (pc = "returned" /\ call.op \in CommandOps) =>
          last_good_status = call.pre.last_good_status

\* a get_status with a read that failed and a read that brought a status, on
\* a connected session: the timeout of connect() is back
C30_Witness ==
    /\ Polled
    /\ WasReady
    /\ call.trace = <<"raise", "status">>
    /\ ~events[1].ok /\ events[2].ok
    /\ sockets[sock].timeout = DefaultTimeout
    /\ sequence > 2
=============================================================================
